---- MODULE Spec2Model ----
(***************************************************************************)
(* Model of flask_app.py: a table bool_store of boolean cells addressed by *)
(* a write uuid and a read uuid, with idle expiry (cleanup_expired, run by *)
(* index) and a gravity timer reset lazily by read_bit and actively by the *)
(* gravity_monitor thread.  Every handler is split at the points where the *)
(* code touches shared state: one step per SQL statement (with its commit) *)
(* and one per time.time() call.  Request handlers run on worker threads,  *)
(* the monitor on its own thread, all over one clock.                      *)
(***************************************************************************)
EXTENDS Integers, Sequences, FiniteSets, TLC

VARIABLES
    store,      \* the rows of table bool_store
    clock,      \* int(time.time())
    pc,         \* per worker thread: the statement it is about to run
    local,      \* per worker thread: the handler's local variables
    resp,       \* per worker thread: the response the handler returned
    mon_pc,     \* gravity_monitor: the statement it is about to run
    mon_time,   \* gravity_monitor: its current_time
    nreq,       \* the number of requests the server will still receive
    deleted,    \* history: the key pairs of the rows cleanup_expired deleted
    shadow      \* history: the rows as the inserts, the writes and the idle
                \* sweeps alone leave them, no gravity reset applied

vars == <<store, clock, pc, local, resp, mon_pc, mon_time, nreq, deleted, shadow>>

----------------------------------------------------------------------------
(* Bounds of the model *)

\* uuid4() draws from NumTokens tokens
NumTokens == 2
\* the clock runs from StartTime to MaxTime
MaxTime == 3
\* the largest gravity_time a request carries
MaxGravity == 1
\* the requests the server receives in one run
MaxRequests == 2
\* the requests the server receives in one run of LiveSpec
LiveRequests == 1
\* EXPIRATION_DAYS * 24 * 60 * 60 seconds of inactivity, scaled down to the
\* clock of the model
EXPIRATION_SECONDS == 1

----------------------------------------------------------------------------
(* Constants of the program *)

\* the clock at start-up: time.time() is positive
StartTime == 1

\* the worker threads of the server
Workers == {"w1", "w2"}
\* the threads serving requests in this run
Threads == DOMAIN pc
Tokens == 1..NumTokens

\* Python's None / SQL NULL, and a present value
None == <<>>
Some(x) == <<x>>
Val(o) == o[1]

----------------------------------------------------------------------------
(* Request parameters and their parsing *)

\* request.args.get("bit"): absent, or the text sent
BitParams == {None, Some("True"), Some("false")}

\* str.lower() on the texts above
Lower(s) == IF s = "True" THEN "true" ELSE s

\* bit_value = 1 if bit.lower() == "true" else 0
BitValue(bit) == IF Lower(Val(bit)) = "true" THEN 1 ELSE 0

GravityInts == -1..MaxGravity

\* request.args.get("gravity_time"): absent, or the text sent
GravityParams == {None, Some("1.5")} \cup {Some(ToString(i)) : i \in GravityInts}

\* mutant: a decimal text is truncated to its integer part
ParseInt_Truncates(s) ==
    IF s = "1.5" THEN Some(1)
    ELSE IF \E i \in GravityInts : ToString(i) = s
    THEN Some(CHOOSE i \in GravityInts : ToString(i) = s)
    ELSE None
\* int(gravity_time_param): the integer, or None for ValueError
ParseInt(s) ==
    IF \E i \in GravityInts : ToString(i) = s
    THEN Some(CHOOSE i \in GravityInts : ToString(i) = s)
    ELSE None

----------------------------------------------------------------------------
(* The table *)

Row(w, r, b, c, ge, gx) ==
    [write_uuid |-> w, read_uuid |-> r, bit |-> b, created_at |-> c,
     gravity_enabled |-> ge, gravity_expires_at |-> gx]

\* mutant: the lookup of write_bit also matches the read uuid
ByWrite_AnyKey(s, w) == {row \in s : row.write_uuid = w \/ row.read_uuid = w}
\* SELECT ... WHERE write_uuid = ? / WHERE read_uuid = ?
ByWrite(s, w) == {row \in s : row.write_uuid = w}
ByRead(s, r) == {row \in s : row.read_uuid = r}

\* write_uuid TEXT PRIMARY KEY, read_uuid TEXT UNIQUE NOT NULL
InsertAllowed(s, w, r) == ByWrite(s, w) = {} /\ ByRead(s, r) = {}

\* mutant: a row is deleted as soon as it reaches the threshold
CleanupDeletes_AtThreshold(row, now) == now - row.created_at >= EXPIRATION_SECONDS
\* cleanup_expired: DELETE FROM bool_store WHERE ? - created_at > ?
CleanupDeletes(row, now) == now - row.created_at > EXPIRATION_SECONDS
CleanupExpired(s, now) == {row \in s : ~CleanupDeletes(row, now)}

\* the SET clause shared by the two gravity resets
ResetRow(row) ==
    [row EXCEPT !.bit = 0, !.gravity_enabled = 0, !.gravity_expires_at = None]

\* mutant: the monitor resets only after the expiry time has passed
MonitorExpired_Strict(row, now) ==
    /\ row.gravity_enabled = 1
    /\ row.gravity_expires_at # None
    /\ now > Val(row.gravity_expires_at)
\* gravity_monitor: WHERE gravity_enabled = 1 AND gravity_expires_at IS NOT NULL
\*                  AND ? >= gravity_expires_at
MonitorExpired(row, now) ==
    /\ row.gravity_enabled = 1
    /\ row.gravity_expires_at # None
    /\ now >= Val(row.gravity_expires_at)
\* mutant: the monitor's UPDATE is never committed
MonitorUpdate_NoCommit(s, now) == s
MonitorUpdate(s, now) ==
    {IF MonitorExpired(row, now) THEN ResetRow(row) ELSE row : row \in s}

\* mutant: the read resets only after the expiry time has passed
ReadExpired_Strict(row, now) ==
    /\ row.gravity_enabled # 0
    /\ row.gravity_expires_at # None
    /\ Val(row.gravity_expires_at) # 0
    /\ now > Val(row.gravity_expires_at)
\* read_bit: gravity_enabled and gravity_expires_at and current_time >= gravity_expires_at
\* (None and 0 are both false in Python)
ReadExpired(row, now) ==
    /\ row.gravity_enabled # 0
    /\ row.gravity_expires_at # None
    /\ Val(row.gravity_expires_at) # 0
    /\ now >= Val(row.gravity_expires_at)
\* mutant: the reset of a read counts as activity on the cell
ReadUpdate_Touches(s, r) ==
    {IF row.read_uuid = r
     THEN [ResetRow(row) EXCEPT !.created_at = row.created_at + 1]
     ELSE row : row \in s}
\* read_bit: UPDATE ... WHERE read_uuid = ?
ReadUpdate(s, r) ==
    {IF row.read_uuid = r THEN ResetRow(row) ELSE row : row \in s}
\* read_bit: the bit it returns for the row it fetched
ReadBitValue(row, now) == IF ReadExpired(row, now) THEN FALSE ELSE row.bit # 0

\* mutant: a gravity_time of 0 arms the timer
GravityFields_ZeroArms(gravity_seconds, now) ==
    IF gravity_seconds >= 0
    THEN [gravity_enabled |-> 1, gravity_expires_at |-> Some(now + gravity_seconds)]
    ELSE [gravity_enabled |-> 0, gravity_expires_at |-> None]
\* write_bit: gravity_enabled, gravity_expires_at from gravity_seconds
GravityFields(gravity_seconds, now) ==
    IF gravity_seconds > 0
    THEN [gravity_enabled |-> 1, gravity_expires_at |-> Some(now + gravity_seconds)]
    ELSE [gravity_enabled |-> 0, gravity_expires_at |-> None]
\* mutant: a disarming write leaves the old expiry time in the row
WriteGravityRow_KeepsExpiry(row, bit_value, now, g) ==
    [row EXCEPT !.bit = bit_value, !.created_at = now,
                !.gravity_enabled = g.gravity_enabled,
                !.gravity_expires_at =
                    IF g.gravity_expires_at = None THEN row.gravity_expires_at
                    ELSE g.gravity_expires_at]
\* write_bit: UPDATE ... SET bit, created_at, gravity_enabled, gravity_expires_at
WriteGravityRow(row, bit_value, now, g) ==
    [row EXCEPT !.bit = bit_value, !.created_at = now,
                !.gravity_enabled = g.gravity_enabled,
                !.gravity_expires_at = g.gravity_expires_at]
\* mutant: a write without gravity_time disarms the timer
WritePlainRow_Disarms(row, bit_value, now) ==
    [row EXCEPT !.bit = bit_value, !.created_at = now,
                !.gravity_enabled = 0, !.gravity_expires_at = None]
\* write_bit: UPDATE ... SET bit, created_at
WritePlainRow(row, bit_value, now) ==
    [row EXCEPT !.bit = bit_value, !.created_at = now]
\* mutant: the UPDATE has no WHERE clause
WriteUpdate_NoWhere(s, w, bit_value, now, gravity) ==
    {IF gravity = None THEN WritePlainRow(row, bit_value, now)
     ELSE WriteGravityRow(row, bit_value, now, Val(gravity)) : row \in s}
\* mutant: the UPDATE inserts the row when the key matches none
WriteUpdate_Upsert(s, w, bit_value, now, gravity) ==
    IF \E row \in s : row.write_uuid = w
    THEN {IF row.write_uuid = w
          THEN IF gravity = None THEN WritePlainRow(row, bit_value, now)
               ELSE WriteGravityRow(row, bit_value, now, Val(gravity))
          ELSE row : row \in s}
    ELSE s \cup {Row(w, w, bit_value, now, 0, None)}
\* write_bit: UPDATE ... WHERE write_uuid = ?
WriteUpdate(s, w, bit_value, now, gravity) ==
    {IF row.write_uuid = w
     THEN IF gravity = None THEN WritePlainRow(row, bit_value, now)
          ELSE WriteGravityRow(row, bit_value, now, Val(gravity))
     ELSE row : row \in s}

\* all_entries: SELECT read_uuid, bit, gravity_enabled, gravity_expires_at
AllRows(s) ==
    {[read_uuid |-> row.read_uuid, bit |-> row.bit # 0,
      gravity_enabled |-> row.gravity_enabled # 0,
      gravity_expires_at |-> row.gravity_expires_at] : row \in s}

----------------------------------------------------------------------------
(* Handler state *)

NoLocal ==
    [uuid |-> None, bit |-> None, gravity_time_param |-> None, row |-> None,
     current_time |-> None, write_uuid |-> None, read_uuid |-> None]

NoResp ==
    [status |-> 0, error |-> "", message |-> "", bit |-> None,
     write_uuid |-> None, read_uuid |-> None, gravity |-> None,
     gravity_expires_at |-> None, rows |-> {}]

Error(code, text) == [NoResp EXCEPT !.status = code, !.error = text]

\* the database file outlives the process (CREATE TABLE IF NOT EXISTS): a
\* start can find in it a cell that was created and then written
PersistedStores ==
    {{Row(1, 2, b, StartTime, g.gravity_enabled, g.gravity_expires_at)} :
        b \in {0, 1},
        g \in {GravityFields(0, StartTime), GravityFields(1, StartTime)}}

\* start-up: init_db() on an empty or a persisted database, the monitor
\* thread started, and one worker serving the requests one after the other
Init ==
    /\ store \in {{}} \cup PersistedStores
    /\ clock = StartTime
    /\ pc = [t \in {"w1"} |-> "idle"]
    /\ local = [t \in {"w1"} |-> NoLocal]
    /\ resp = [t \in {"w1"} |-> NoResp]
    /\ mon_pc = "time"
    /\ mon_time = None
    /\ nreq = MaxRequests
    /\ deleted = {}
    /\ shadow = store

\* the workers serving one request each at the same time
RaceInit ==
    /\ store \in PersistedStores
    /\ clock = StartTime
    /\ pc = [t \in Workers |-> "idle"]
    /\ local = [t \in Workers |-> NoLocal]
    /\ resp = [t \in Workers |-> NoResp]
    /\ mon_pc = "time"
    /\ mon_time = None
    /\ nreq = Cardinality(Workers)
    /\ deleted = {}
    /\ shadow = store

\* the same database, and one worker serving the requests one after the other
LiveInit ==
    /\ store \in PersistedStores
    /\ clock = StartTime
    /\ pc = [t \in {"w1"} |-> "idle"]
    /\ local = [t \in {"w1"} |-> NoLocal]
    /\ resp = [t \in {"w1"} |-> NoResp]
    /\ mon_pc = "time"
    /\ mon_time = None
    /\ nreq = LiveRequests
    /\ deleted = {}
    /\ shadow = store

\* time passes
Tick ==
    /\ clock < MaxTime
    /\ clock' = clock + 1
    /\ UNCHANGED <<store, pc, local, resp, mon_pc, mon_time, nreq, deleted, shadow>>

\* the handler returns and the thread takes the next request
Return(t) ==
    /\ pc[t] = "done"
    /\ pc' = [pc EXCEPT ![t] = "idle"]
    /\ local' = [local EXCEPT ![t] = NoLocal]
    /\ resp' = [resp EXCEPT ![t] = NoResp]
    /\ UNCHANGED <<store, clock, mon_pc, mon_time, nreq, deleted, shadow>>

\* an idle thread receives a request
Accept(t) ==
    /\ pc[t] = "idle"
    /\ nreq > 0
    /\ nreq' = nreq - 1

----------------------------------------------------------------------------
(* gravity_monitor *)

MonitorTime ==
    /\ mon_pc = "time"
    /\ mon_time' = Some(clock)
    /\ mon_pc' = "update"
    /\ UNCHANGED <<store, clock, pc, local, resp, nreq, deleted, shadow>>

MonitorSweep ==
    /\ mon_pc = "update"
    /\ store' = MonitorUpdate(store, Val(mon_time))
    /\ mon_pc' = "time"
    /\ mon_time' = None
    /\ UNCHANGED <<clock, pc, local, resp, nreq, deleted, shadow>>

----------------------------------------------------------------------------
(* index *)

IndexCleanupTime(t) ==
    /\ Accept(t)
    /\ pc' = [pc EXCEPT ![t] = "idx_delete"]
    /\ local' = [local EXCEPT ![t].current_time = Some(clock)]
    /\ UNCHANGED <<store, clock, resp, mon_pc, mon_time, deleted, shadow>>

IndexCleanupDelete(t) ==
    /\ pc[t] = "idx_delete"
    /\ store' = CleanupExpired(store, Val(local[t].current_time))
    /\ deleted' = deleted \cup
          {<<row.write_uuid, row.read_uuid>> : row \in store \ store'}
    /\ shadow' = CleanupExpired(shadow, Val(local[t].current_time))
    /\ pc' = [pc EXCEPT ![t] = "idx_uuid"]
    /\ UNCHANGED <<clock, local, resp, mon_pc, mon_time, nreq>>

\* created_at = int(time.time())
IndexTime(t) ==
    /\ pc[t] = "idx_uuid"
    /\ local' = [local EXCEPT ![t].current_time = Some(clock)]
    /\ pc' = [pc EXCEPT ![t] = "idx_insert"]
    /\ UNCHANGED <<store, clock, resp, mon_pc, mon_time, nreq, deleted, shadow>>

\* the two uuid4() draws are made here, where the handler first uses them
IndexInsert(t) ==
    /\ pc[t] = "idx_insert"
    /\ \E w \in Tokens, r \in Tokens :
         local' = [local EXCEPT ![t].write_uuid = Some(w),
                                ![t].read_uuid = Some(r)]
    /\ LET w == Val(local'[t].write_uuid)
           r == Val(local'[t].read_uuid)
       IN IF InsertAllowed(store, w, r)
          THEN /\ store' = store \cup
                     {Row(w, r, 0, Val(local[t].current_time), 0, None)}
               /\ shadow' = shadow \cup
                     {Row(w, r, 0, Val(local[t].current_time), 0, None)}
               /\ resp' = [resp EXCEPT ![t] =
                     [NoResp EXCEPT !.status = 200,
                                    !.write_uuid = Some(w),
                                    !.read_uuid = Some(r)]]
          ELSE /\ store' = store
               /\ shadow' = shadow
               /\ resp' = [resp EXCEPT ![t] = Error(500, "IntegrityError")]
    /\ pc' = [pc EXCEPT ![t] = "done"]
    /\ UNCHANGED <<clock, mon_pc, mon_time, nreq, deleted>>

----------------------------------------------------------------------------
(* write_bit *)

WriteSelect(t) ==
    /\ Accept(t)
    /\ \E w \in Tokens :
         LET rows == ByWrite(store, w)
         IN IF rows = {}
            THEN /\ resp' = [resp EXCEPT ![t] = Error(404, "Invalid write UUID")]
                 /\ local' = [local EXCEPT ![t].uuid = Some(w)]
                 /\ pc' = [pc EXCEPT ![t] = "done"]
            ELSE /\ local' = [local EXCEPT
                        ![t].uuid = Some(w),
                        ![t].read_uuid =
                            Some((CHOOSE row \in rows : TRUE).read_uuid)]
                 /\ pc' = [pc EXCEPT ![t] = "w_time"]
                 /\ resp' = resp
    /\ UNCHANGED <<store, clock, mon_pc, mon_time, deleted, shadow>>

WriteTime(t) ==
    /\ pc[t] = "w_time"
    /\ local' = [local EXCEPT ![t].current_time = Some(clock)]
    /\ pc' = [pc EXCEPT ![t] = "w_update"]
    /\ UNCHANGED <<store, clock, resp, mon_pc, mon_time, nreq, deleted, shadow>>

\* the response of a write that updated the bit
WriteResponse(bit_value, read_uuid, gravity_time_param, gravity_seconds, g) ==
    LET base == [NoResp EXCEPT !.status = 200, !.message = "Bit updated",
                               !.bit = Some(bit_value # 0),
                               !.read_uuid = read_uuid]
    IN IF gravity_time_param # None
       THEN [base EXCEPT !.gravity = Some(gravity_seconds > 0),
                         !.gravity_expires_at = g.gravity_expires_at]
       ELSE base

\* the bit and gravity_time parameters of the request are drawn here, where
\* the handler first uses them
WriteFinish(t) ==
    /\ pc[t] = "w_update"
    /\ \E bit \in BitParams, g \in GravityParams :
         local' = [local EXCEPT ![t].bit = bit, ![t].gravity_time_param = g]
    /\ LET l == local'[t]
           now == Val(l.current_time)
       IN IF l.bit = None
          THEN \* no bit parameter: nothing is written
               /\ store' = store
               /\ shadow' = shadow
               /\ resp' = [resp EXCEPT ![t] =
                     [NoResp EXCEPT !.status = 200, !.write_uuid = l.uuid,
                                    !.read_uuid = l.read_uuid]]
          ELSE IF l.gravity_time_param = None
          THEN /\ store' = WriteUpdate(store, Val(l.uuid), BitValue(l.bit), now, None)
               /\ shadow' = WriteUpdate(shadow, Val(l.uuid), BitValue(l.bit), now, None)
               /\ resp' = [resp EXCEPT ![t] =
                     WriteResponse(BitValue(l.bit), l.read_uuid, None, 0, None)]
          ELSE IF ParseInt(Val(l.gravity_time_param)) = None
          THEN /\ store' = store
               /\ shadow' = shadow
               /\ resp' = [resp EXCEPT ![t] = Error(400, "Invalid gravity_time value")]
          ELSE LET gravity_seconds == Val(ParseInt(Val(l.gravity_time_param)))
                   g == GravityFields(gravity_seconds, now)
               IN /\ store' = WriteUpdate(store, Val(l.uuid), BitValue(l.bit),
                                          now, Some(g))
                  /\ shadow' = WriteUpdate(shadow, Val(l.uuid), BitValue(l.bit),
                                           now, Some(g))
                  /\ resp' = [resp EXCEPT ![t] =
                        WriteResponse(BitValue(l.bit), l.read_uuid,
                                      l.gravity_time_param, gravity_seconds, g)]
    /\ pc' = [pc EXCEPT ![t] = "done"]
    /\ UNCHANGED <<clock, mon_pc, mon_time, nreq, deleted>>

----------------------------------------------------------------------------
(* read_bit *)

ReadSelect(t) ==
    /\ Accept(t)
    /\ \E r \in Tokens :
         LET rows == ByRead(store, r)
         IN IF rows = {}
            THEN /\ resp' = [resp EXCEPT ![t] = Error(404, "Invalid read UUID")]
                 /\ local' = [local EXCEPT ![t].uuid = Some(r)]
                 /\ pc' = [pc EXCEPT ![t] = "done"]
            ELSE /\ local' = [local EXCEPT
                        ![t].uuid = Some(r),
                        ![t].row = Some(CHOOSE row \in rows : TRUE)]
                 /\ pc' = [pc EXCEPT ![t] = "r_time"]
                 /\ resp' = resp
    /\ UNCHANGED <<store, clock, mon_pc, mon_time, deleted, shadow>>

ReadTime(t) ==
    /\ pc[t] = "r_time"
    /\ local' = [local EXCEPT ![t].current_time = Some(clock)]
    /\ pc' = [pc EXCEPT ![t] = "r_update"]
    /\ UNCHANGED <<store, clock, resp, mon_pc, mon_time, nreq, deleted, shadow>>

ReadFinish(t) ==
    /\ pc[t] = "r_update"
    /\ LET l == local[t]
           row == Val(l.row)
           now == Val(l.current_time)
       IN /\ store' = IF ReadExpired(row, now)
                      THEN ReadUpdate(store, Val(l.uuid))
                      ELSE store
          /\ resp' = [resp EXCEPT ![t] =
                [NoResp EXCEPT !.status = 200,
                               !.bit = Some(ReadBitValue(row, now))]]
    /\ pc' = [pc EXCEPT ![t] = "done"]
    /\ UNCHANGED <<clock, local, mon_pc, mon_time, nreq, deleted, shadow>>

----------------------------------------------------------------------------
(* all_entries *)

AllEntries(t) ==
    /\ Accept(t)
    /\ resp' = [resp EXCEPT ![t] =
          [NoResp EXCEPT !.status = 200, !.message = "All UUID Entries",
                         !.rows = AllRows(store)]]
    /\ pc' = [pc EXCEPT ![t] = "done"]
    /\ UNCHANGED <<store, clock, local, mon_pc, mon_time, deleted, shadow>>

----------------------------------------------------------------------------

Next ==
    \/ Tick
    \/ MonitorTime
    \/ MonitorSweep
    \/ \E t \in Threads : Return(t)
    \/ \E t \in Threads : IndexCleanupTime(t)
    \/ \E t \in Threads : IndexCleanupDelete(t)
    \/ \E t \in Threads : IndexTime(t)
    \/ \E t \in Threads : IndexInsert(t)
    \/ \E t \in Threads : WriteSelect(t)
    \/ \E t \in Threads : WriteTime(t)
    \/ \E t \in Threads : WriteFinish(t)
    \/ \E t \in Threads : ReadSelect(t)
    \/ \E t \in Threads : ReadTime(t)
    \/ \E t \in Threads : ReadFinish(t)
    \/ \E t \in Threads : AllEntries(t)

Spec == Init /\ [][Next]_vars

RaceSpec == RaceInit /\ [][Next]_vars

\* the monitor's loop runs for as long as the process does
LiveSpec ==
    LiveInit /\ [][Next]_vars /\ WF_vars(MonitorTime) /\ WF_vars(MonitorSweep)

----------------------------------------------------------------------------
(* Properties.  They are stated on the fields of the rows and of the        *)
(* responses, not through the operators of the handlers above.              *)

\* the rows a key addresses
CellsW(s, k) == {c \in s : c.write_uuid = k}
CellsR(s, k) == {c \in s : c.read_uuid = k}

\* the gravity timer of a row: Disabled, or Armed(t)
Armed(c) == c.gravity_enabled = 1 /\ c.gravity_expires_at # None
Lapsed(c, now) == Armed(c) /\ now >= c.gravity_expires_at[1]
Reconciled(c) ==
    c.bit = 0 /\ c.gravity_enabled = 0 /\ c.gravity_expires_at = None

\* the steps that end a handler
ReadEnds(t) == pc[t] = "r_update" /\ pc'[t] = "done"
WriteEnds(t) == pc[t] = "w_update" /\ pc'[t] = "done"
WriteUpdated(t) == WriteEnds(t) /\ resp'[t].message = "Bit updated"
SweepIdleEnds(t) == pc[t] = "idx_delete" /\ pc'[t] = "idx_uuid"

\* the bit a write request supplies
SuppliedBit(l) == IF l.bit \in {<<"true">>, <<"True">>} THEN 1 ELSE 0

\* C1: a read of a cell whose gravity timer has lapsed at the read's time
\* (now >= gravity_expires_at, the cell as the read fetched it) returns
\* bit=false and leaves the row with bit=false, gravity_enabled=false,
\* gravity_expires_at=none; a read of a cell that is Disabled, or Armed(t)
\* with now < t, returns the stored bit and changes nothing.
C1_ReadAppliesGravity ==
    [][\A t \in Threads : ReadEnds(t) =>
        LET c == local[t].row[1]
            now == local[t].current_time[1]
        IN /\ resp'[t].status = 200
           /\ Lapsed(c, now) =>
                /\ resp'[t].bit = <<FALSE>>
                /\ \A d \in CellsR(store', c.read_uuid) : Reconciled(d)
           /\ ~Lapsed(c, now) =>
                /\ resp'[t].bit = <<c.bit = 1>>
                /\ store' = store]_vars

\* a read at the very time the timer expires returned false for a stored true
C1_Witness ==
    \E t \in Threads :
        /\ pc[t] = "done"
        /\ local[t].row # None
        /\ local[t].row[1].bit = 1
        /\ Armed(local[t].row[1])
        /\ local[t].current_time = local[t].row[1].gravity_expires_at
        /\ resp[t].bit = <<FALSE>>
        /\ \E d \in CellsR(store, local[t].row[1].read_uuid) : Reconciled(d)

\* C2: a write that supplies a bit and a gravity duration d sets the bit of
\* the row to the supplied bit and its timer to Armed(now + d) when d > 0,
\* whatever the timer was, and to Disabled with gravity_expires_at=none when
\* d <= 0; the bit is the supplied one in both cases.
C2_WriteMovesTimer ==
    [][\A t \in Threads : \A d \in GravityInts :
        (WriteUpdated(t) /\ local'[t].gravity_time_param = <<ToString(d)>>) =>
        LET l == local'[t]
            now == l.current_time[1]
        IN \A c \in CellsW(store, l.uuid[1]) :
             store' = (store \ {c}) \cup
                {[c EXCEPT !.bit = SuppliedBit(l),
                           !.created_at = now,
                           !.gravity_enabled = IF d > 0 THEN 1 ELSE 0,
                           !.gravity_expires_at =
                               IF d > 0 THEN <<now + d>> ELSE <<>>]}]_vars

\* a write of true with duration 0 has disarmed a timer: the bit is true
C2_Witness ==
    \E t \in Threads :
        /\ pc[t] = "done"
        /\ resp[t].message = "Bit updated"
        /\ resp[t].gravity = <<FALSE>>
        /\ local[t].gravity_time_param = <<"0">>
        /\ \E c \in CellsW(store, local[t].uuid[1]) :
             c.bit = 1 /\ c.gravity_enabled = 0 /\ c.gravity_expires_at = None

\* C3: a write that supplies a bit and no gravity duration changes the bit
\* and last_written_at (created_at) of the row and nothing else:
\* gravity_enabled and gravity_expires_at stay as they were.
C3_PlainWriteKeepsTimer ==
    [][\A t \in Threads :
        (WriteUpdated(t) /\ local'[t].gravity_time_param = None) =>
        LET l == local'[t]
        IN \A c \in CellsW(store, l.uuid[1]) :
             store' = (store \ {c}) \cup
                {[c EXCEPT !.bit = SuppliedBit(l),
                           !.created_at = l.current_time[1]]}]_vars

\* a write of false without duration left a cell armed, at a later time
C3_Witness ==
    \E t \in Threads :
        /\ pc[t] = "done"
        /\ resp[t].message = "Bit updated"
        /\ local[t].gravity_time_param = None
        /\ resp[t].bit = <<FALSE>>
        /\ \E c \in CellsW(store, local[t].uuid[1]) :
             /\ Armed(c)
             /\ c.bit = 0
             /\ c.created_at = local[t].current_time[1]
             /\ c.created_at > StartTime

\* C4: the idle sweep run by index at time now deletes exactly the rows with
\* now - created_at > EXPIRATION_SECONDS: the others, a row exactly at the
\* threshold among them, stay unchanged, neither key of a deleted row
\* addresses a row any more, and a key that addresses no row addresses none
\* until an index inserts that very token again.
C4_IdleSweep ==
    [][/\ \A t \in Threads : SweepIdleEnds(t) =>
            LET now == local[t].current_time[1]
            IN /\ store' = {c \in store : now - c.created_at <= EXPIRATION_SECONDS}
               /\ \A c \in store : now - c.created_at > EXPIRATION_SECONDS =>
                    /\ CellsW(store', c.write_uuid) = {}
                    /\ CellsR(store', c.read_uuid) = {}
       /\ \A k \in Tokens :
            /\ (CellsW(store, k) = {} /\ CellsW(store', k) # {}) =>
                  \E t \in Threads :
                      pc[t] = "idx_insert" /\ local'[t].write_uuid = <<k>>
            /\ (CellsR(store, k) = {} /\ CellsR(store', k) # {}) =>
                  \E t \in Threads :
                      pc[t] = "idx_insert" /\ local'[t].read_uuid = <<k>>]_vars

\* a sweep has deleted a row and kept one that is exactly at the threshold
C4_Witness ==
    \E t \in Threads :
        /\ pc[t] = "idx_uuid"
        /\ deleted # {}
        /\ \A p \in deleted : CellsW(store, p[1]) = {} /\ CellsR(store, p[2]) = {}
        /\ \E c \in store : clock - c.created_at = EXPIRATION_SECONDS

\* C5: a write whose key is not the write_uuid of a row, and a read whose key
\* is not the read_uuid of a row, answer 404 and change no row; a key that
\* does address a row of its kind is not refused.
C5_NotFound ==
    [][\A t \in Threads :
        (pc[t] = "idle" /\ local'[t].uuid # None) =>
        LET k == local'[t].uuid[1]
        IN /\ pc'[t] = "w_time" => CellsW(store, k) # {}
           /\ pc'[t] = "r_time" => CellsR(store, k) # {}
           /\ pc'[t] = "done" =>
                /\ resp'[t].status = 404
                /\ store' = store
                /\ \/ resp'[t].error = "Invalid write UUID" /\ CellsW(store, k) = {}
                   \/ resp'[t].error = "Invalid read UUID" /\ CellsR(store, k) = {}]_vars

\* a write to the read uuid of a live cell was refused
C5_Witness ==
    \E t \in Threads :
        /\ pc[t] = "done"
        /\ resp[t].status = 404
        /\ resp[t].error = "Invalid write UUID"
        /\ \E c \in store :
             c.read_uuid = local[t].uuid[1] /\ c.write_uuid # local[t].uuid[1]

\* C6: a gravity reset racing with a write on the same cell serializes: a
\* read resets a row only if the timer stored in the row when the reset is
\* applied has lapsed at the read's time, never on a timer value that a
\* committed write has replaced in the meantime.
C6_ResetSerializesWithWrite ==
    [][\A t \in Threads : (ReadEnds(t) /\ store' # store) =>
        \A c \in CellsR(store, local[t].uuid[1]) :
            Lapsed(c, local[t].current_time[1])]_vars

\* C7: in every row, gravity_expires_at is present if and only if
\* gravity_enabled is true.
C7_ExpiryIffEnabled ==
    \A c \in store : (c.gravity_expires_at # None) <=> (c.gravity_enabled = 1)

\* a write with a negative duration has left its cell without expiry time,
\* beside a second cell
C7_Witness ==
    \E t \in Threads :
        /\ pc[t] = "done"
        /\ resp[t].message = "Bit updated"
        /\ local[t].gravity_time_param = <<"-1">>
        /\ \E c \in CellsW(store, local[t].uuid[1]) :
             c.gravity_enabled = 0 /\ c.gravity_expires_at = None
        /\ \E c \in store : c.write_uuid # local[t].uuid[1]

\* C8: the lazy reset of read_bit and the active reset of gravity_monitor
\* are the same: at every time the two conditions pick the same rows, a row
\* that is Armed(t) with now >= t is left by either with bit=false,
\* gravity_enabled=false, gravity_expires_at=none and its other fields as
\* they were, a row that neither resets is left alone by both, and a later
\* read of a reset row returns false.
C8_LazyActiveEquivalent ==
    \A c \in store : \A now \in StartTime..MaxTime :
        LET r == [c EXCEPT !.bit = 0, !.gravity_enabled = 0,
                           !.gravity_expires_at = <<>>]
            viaRead == IF ReadExpired(c, now)
                       THEN ReadUpdate(store, c.read_uuid) ELSE store
            viaSweep == MonitorUpdate(store, now)
        IN /\ ReadExpired(c, now) <=> MonitorExpired(c, now)
           /\ CellsW(viaRead, c.write_uuid) = CellsW(viaSweep, c.write_uuid)
           /\ CellsW(viaRead, c.write_uuid) = IF Lapsed(c, now) THEN {r} ELSE {c}
           /\ Lapsed(c, now) =>
                \A later \in now..MaxTime : ReadBitValue(r, later) = FALSE

\* the monitor has reset a cell that a write armed with bit true, while the
\* only worker was still returning from that write
C8_Witness ==
    /\ DOMAIN pc = {"w1"}
    /\ pc["w1"] = "done"
    /\ resp["w1"].message = "Bit updated"
    /\ resp["w1"].bit = <<TRUE>>
    /\ resp["w1"].gravity = <<TRUE>>
    /\ \E c \in CellsW(store, local["w1"].uuid[1]) : Reconciled(c)

\* C9: with the monitor running, a cell whose timer has lapsed (Armed(t)
\* with now >= t) does not stay so: eventually its row is bit=false,
\* gravity_enabled=false, gravity_expires_at=none, or a write has re-armed
\* it with a timer that has not lapsed or has disarmed it, or idle expiry
\* has deleted it.
C9_EventuallyReconciled ==
    \A k \in Tokens :
        (\E c \in CellsW(store, k) : Lapsed(c, clock))
        ~> (\A c \in CellsW(store, k) :
               \/ Reconciled(c)
               \/ Armed(c) /\ ~Lapsed(c, clock)
               \/ ~Armed(c) /\ c.bit = 1)

\* after one write that armed the timer, and no read, the row is reconciled
\* once the time is past the expiry
C9_Witness ==
    /\ nreq = LiveRequests - 1
    /\ \E t \in Threads :
        /\ pc[t] = "done"
        /\ resp[t].message = "Bit updated"
        /\ resp[t].gravity = <<TRUE>>
        /\ clock > resp[t].gravity_expires_at[1]
        /\ \E c \in CellsW(store, local[t].uuid[1]) : Reconciled(c)

\* C10: the bit a successful write returns is the effective bit of the row
\* after the write, the one a read at the same time would return, and the
\* read_uuid it returns is that of the row.
C10_WriteReturnsEffectiveBit ==
    [][\A t \in Threads : WriteUpdated(t) =>
        \A c \in CellsW(store', local'[t].uuid[1]) :
            /\ resp'[t].read_uuid = <<c.read_uuid>>
            /\ resp'[t].bit =
                 <<IF Lapsed(c, local'[t].current_time[1]) THEN FALSE
                   ELSE c.bit = 1>>]_vars

\* C11: a write that supplies a bit and reports success at its time w leaves
\* the cell of its key with created_at (last_written_at) = w, and an idle
\* sweep at time now keeps every row with now <= created_at +
\* EXPIRATION_SECONDS: the written cell outlives every such sweep.
C11_WriteRefreshesIdleTimer ==
    [][/\ \A t \in Threads : WriteUpdated(t) =>
            \E c \in CellsW(store', local'[t].uuid[1]) :
                c.created_at = local'[t].current_time[1]
       /\ \A t \in Threads : SweepIdleEnds(t) =>
            \A c \in store :
                local[t].current_time[1] <= c.created_at + EXPIRATION_SECONDS
                    => c \in store']_vars

\* C12: no step of a read changes created_at (last_written_at) of any row,
\* the step that applies the lazy gravity reset included: the rows before
\* and after carry the same keys with the same created_at.
C12_ReadKeepsLastWritten ==
    [][\A t \in Threads :
        (\/ pc[t] = "idle" /\ pc'[t] = "r_time"
         \/ pc[t] = "idle" /\ resp'[t].error = "Invalid read UUID"
         \/ pc[t] = "r_time" /\ pc'[t] = "r_update"
         \/ ReadEnds(t)) =>
        {<<c.write_uuid, c.read_uuid, c.created_at>> : c \in store'}
            = {<<c.write_uuid, c.read_uuid, c.created_at>> : c \in store}]_vars

\* a read at a later time has reset a lapsed cell and left its created_at
C12_Witness ==
    \E t \in Threads :
        /\ pc[t] = "done"
        /\ local[t].row # None
        /\ Lapsed(local[t].row[1], local[t].current_time[1])
        /\ local[t].current_time[1] > local[t].row[1].created_at
        /\ \E d \in CellsR(store, local[t].uuid[1]) :
             Reconciled(d) /\ d.created_at = local[t].row[1].created_at

\* C13: a write that supplies a bit and a gravity_time that is not the text
\* of an integer answers 400 "Invalid gravity_time value" and changes no
\* row: bit, created_at, gravity_enabled and gravity_expires_at stay.
C13_InvalidGravityRejected ==
    [][\A t \in Threads :
        (WriteEnds(t) /\ local'[t].bit # None
            /\ local'[t].gravity_time_param = <<"1.5">>) =>
        /\ resp'[t].status = 400
        /\ resp'[t].error = "Invalid gravity_time value"
        /\ store' = store]_vars

\* a write of true with gravity_time 1.5 was refused on a live cell whose
\* bit is still false
C13_Witness ==
    \E t \in Threads :
        /\ pc[t] = "done"
        /\ resp[t].status = 400
        /\ local[t].bit = <<"True">>
        /\ local[t].gravity_time_param = <<"1.5">>
        /\ \E c \in CellsW(store, local[t].uuid[1]) : c.bit = 0

\* C14: in every state the write_uuids of the rows are pairwise distinct,
\* the read_uuids are pairwise distinct, and no write_uuid of a row equals
\* the read_uuid of a row, the same row or another.
C14_KeysNeverCollide ==
    \A c \in store : \A d \in store :
        /\ c # d => c.write_uuid # d.write_uuid /\ c.read_uuid # d.read_uuid
        /\ c.write_uuid # d.read_uuid

\* C15: an index request never fails on a key collision: whatever tokens
\* uuid4 draws, the request ends with status 200, a pair of keys, and one
\* new row bit=false, gravity disabled, created_at=now under those keys.
C15_CreateNeverFails ==
    [][\A t \in Threads : (pc[t] = "idx_insert" /\ pc'[t] = "done") =>
        /\ resp'[t].status = 200
        /\ resp'[t].write_uuid # None /\ resp'[t].read_uuid # None
        /\ \E c \in store' \ store :
             /\ <<c.write_uuid>> = resp'[t].write_uuid
             /\ <<c.read_uuid>> = resp'[t].read_uuid
             /\ c.bit = 0 /\ c.gravity_enabled = 0
             /\ c.gravity_expires_at = None
             /\ <<c.created_at>> = local[t].current_time]_vars

\* C16: the step in which a write or a read updates the table leaves the
\* pairs of keys of all rows as they were, the row it addresses included,
\* and leaves every row that its key does not address unchanged in every
\* field.
C16_Isolation ==
    [][\A t \in Threads :
        /\ (WriteEnds(t) \/ ReadEnds(t)) =>
             /\ {<<c.write_uuid, c.read_uuid>> : c \in store'}
                  = {<<c.write_uuid, c.read_uuid>> : c \in store}
             /\ Cardinality(store') = Cardinality(store)
        /\ WriteEnds(t) =>
             \A c \in store : c.write_uuid # local[t].uuid[1] => c \in store'
        /\ ReadEnds(t) =>
             \A c \in store : c.read_uuid # local[t].uuid[1] => c \in store']_vars

\* a write has changed its cell beside a second cell that kept its older
\* fields
C16_Witness ==
    \E t \in Threads :
        /\ pc[t] = "done"
        /\ resp[t].message = "Bit updated"
        /\ resp[t].bit = <<TRUE>>
        /\ \E c \in CellsW(store, local[t].uuid[1]) :
             c.bit = 1 /\ c.created_at = local[t].current_time[1]
        /\ \E c \in store :
             /\ c.write_uuid # local[t].uuid[1]
             /\ c.bit = 0
             /\ c.created_at < local[t].current_time[1]

\* the pairs of keys of the live cells
LiveKeys(s) == {<<c.write_uuid, c.read_uuid>> : c \in s}

\* C17: the set of live cells changes only in two steps: the INSERT of
\* index adds exactly one cell, and the DELETE of its idle sweep removes
\* cells.  No other step, the gravity reset of a read or of the monitor and
\* the UPDATE of a write included, removes a cell or brings back one that
\* the sweep deleted, also when the DELETE runs between the lookup and the
\* UPDATE of that request.
C17_CellSetChangesOnlyByCreateAndSweep ==
    [][/\ Cardinality(store') = Cardinality(LiveKeys(store'))
       /\ LiveKeys(store') # LiveKeys(store) =>
            \/ \E t \in Threads :
                  /\ pc[t] = "idx_insert" /\ pc'[t] = "done"
                  /\ resp'[t].status = 200
                  /\ LiveKeys(store') \ LiveKeys(store) =
                        {<<resp'[t].write_uuid[1], resp'[t].read_uuid[1]>>}
                  /\ LiveKeys(store) \subseteq LiveKeys(store')
            \/ \E t \in Threads :
                  /\ SweepIdleEnds(t)
                  /\ store' \subseteq store
                  /\ deleted' = deleted \cup (LiveKeys(store) \ LiveKeys(store'))
       /\ \A p \in deleted :
            (p \notin LiveKeys(store) /\ p \in LiveKeys(store')) =>
                \E t \in Threads : pc[t] = "idx_insert"]_vars

\* a write ran its UPDATE after the idle sweep had deleted the row it had
\* looked up, and the row has stayed deleted
C17_Witness ==
    \E t \in Threads :
        /\ pc[t] = "done"
        /\ resp[t].message = "Bit updated"
        /\ <<local[t].uuid[1], local[t].read_uuid[1]>> \in deleted
        /\ CellsW(store, local[t].uuid[1]) = {}
        /\ CellsR(store, local[t].read_uuid[1]) = {}

\* C18: the gravity reset is idempotent: a step that applies it, the UPDATE
\* of a read or of the monitor, changes no field of a row that is Disabled,
\* its bit included, and every row it changes is Disabled afterwards, so
\* that a second application changes nothing more.
C18_ResetIdempotent ==
    [][((mon_pc = "update" /\ mon_pc' = "time") \/ \E t \in Threads : ReadEnds(t)) =>
        /\ \A c \in store : ~Armed(c) => c \in store'
        /\ \A d \in store' \ store : Reconciled(d)]_vars

\* C19: a write that answers "Bit updated" with bit b has changed exactly
\* one row that existed when its UPDATE ran: the row of its key, which then
\* stores bit b and created_at = the write's time, whatever an idle sweep
\* of a concurrent index did between the write's SELECT and its UPDATE.
C19_SuccessfulWriteApplied ==
    [][\A t \in Threads : WriteUpdated(t) =>
        \E c \in CellsW(store, local'[t].uuid[1]) :
          \E d \in CellsW(store', local'[t].uuid[1]) :
            /\ store' = (store \ {c}) \cup {d}
            /\ <<d.bit = 1>> = resp'[t].bit
            /\ d.created_at = local'[t].current_time[1]]_vars

\* C20: the bit a read returns is determined by the inserts, the writes and
\* the time alone: it is the bit the read returns in the run with the same
\* inserts, writes, idle sweeps and clock in which no earlier read and no
\* sweep of the monitor has reset a row (the rows of that run are shadow).
C20_ReadsDoNotInterfere ==
    [][\A t \in Threads : ReadEnds(t) =>
        \A c \in CellsR(shadow, local[t].uuid[1]) :
            resp'[t].bit =
                <<IF Lapsed(c, local[t].current_time[1]) THEN FALSE
                  ELSE c.bit = 1>>]_vars

====
